---- MODULE Spec2Model ----
(***************************************************************************)
(* cargo-msfs: the SDK install / update / remove commands (src/main.rs)    *)
(* and the download-normalise-resolve-extract pipeline of                  *)
(* install_latest_sdk (src/sdk.rs).                                        *)
(*                                                                         *)
(* Strings the code splits or compares piecewise are sequences of atoms:   *)
(* a raw MSI name is a sequence such as <<"WASM_S~1", "|", "WASM">>, where *)
(* the atom "|" is the one character the code splits on.  A path is a      *)
(* sequence of segments (PathBuf on Windows, where '\' separates): every   *)
(* name drawn for a table has a non-empty long name without separators, as *)
(* the MSI Filename column type requires.  Package::write_stream of the msi *)
(* crate creates the named stream or overwrites the one of that name.      *)
(* The variable log is the history of what a command did; the code keeps   *)
(* no such record, the properties below read it.                           *)
(***************************************************************************)
EXTENDS Integers, Sequences, FiniteSets, TLC

NULL == "null"

\* ------------------------------------------------------------- constants

Msfs2020 == "Msfs2020"
Msfs2024 == "Msfs2024"
SimulatorVersion == {Msfs2020, Msfs2024}

CORE_INSTALLER_KEY == "SDK Installer (Core)"

\* ".\MSFS SDK\" and ".\MSFS 2024 SDK\": the segments before the trailing '\'
MSFS2020_SDK_EXTRACT_FROM == << <<".">>, <<"MSFS SDK">> >>
MSFS2024_SDK_EXTRACT_FROM == << <<".">>, <<"MSFS 2024 SDK">> >>

VERSION_FILE_NAME == << <<"version.txt">> >>

\* ------------------------------------------------------------ sequences

Last(s) == s[Len(s)]

RECURSIVE SplitFrom(_, _, _)
\* str::split("|") continued at position i, cur the piece being read
SplitFrom(s, i, cur) ==
    IF i > Len(s) THEN << cur >>
    ELSE IF s[i] = "|" THEN << cur >> \o SplitFrom(s, i + 1, << >>)
    ELSE SplitFrom(s, i + 1, Append(cur, s[i]))

Split(s) == SplitFrom(s, 1, << >>)

\* ------------------------------------------------------- get_long_file_name

\* a plausible slip: .next() instead of .last() keeps the short name
get_long_file_name_first(string) == Split(string)[1]

get_long_file_name(string) == Last(Split(string))

\* --------------------------------------------------------------- PathBuf

\* PathBuf::join with a relative, separator-free segment
Join(path, segment) == IF segment = << >> THEN path ELSE Append(path, segment)

\* a plausible slip: only the first segment of the prefix is compared
StartsWithFirst(path, prefix) == Len(path) > Len(prefix) /\ path[1] = prefix[1]

\* str::starts_with on the path's text, for a prefix that ends with '\':
\* the leading segments are the prefix's and more text follows
StartsWith(path, prefix) ==
    /\ Len(path) > Len(prefix)
    /\ SubSeq(path, 1, Len(prefix)) = prefix

\* Path::strip_prefix, used only where StartsWith holds
StripPrefix(path, prefix) == SubSeq(path, Len(prefix) + 1, Len(path))

\* ---------------------------------------------------- get_directory_parent

\* Directory table: directory id -> [parent, name]; parent NULL for the root
DirIds == {"TARGETDIR", "ProgramFiles", "INSTALLDIR", "WASM", "Docs"}

\* deeper than any acyclic chain over DirIds: what the recursion cannot
\* exceed unless the parent links loop
MaxDepth == Cardinality(DirIds) + 1

Ok(v) == [ok |-> TRUE, val |-> v, err |-> ""]
Err(e) == [ok |-> FALSE, val |-> << >>, err |-> e]

RECURSIVE get_directory_parent_at(_, _, _)
get_directory_parent_at(directory, directories, depth) ==
    IF depth > MaxDepth THEN Err("stack overflow")
    ELSE IF directory \notin DOMAIN directories THEN Err("couldn't find source row")
    ELSE LET row == directories[directory] IN
         IF row.parent # NULL
         THEN LET parent_path_buf ==
                      get_directory_parent_at(row.parent, directories, depth + 1)
              IN  IF parent_path_buf.ok
                  THEN Ok(Join(parent_path_buf.val, get_long_file_name(row.name)))
                  ELSE parent_path_buf
         ELSE Ok(<< >>)

get_directory_parent(directory, directories) ==
    get_directory_parent_at(directory, directories, 1)

\* ------------------------------------------------------- installer database

FileIds == {"f1", "f2", "f3"}
\* File table rows come in primary-key order
FileOrder == << "f1", "f2", "f3" >>
CompIds == {"cSdk", "cDocs", "cOrphan"}

\* File |><| Component on Component.Component = File.Component_, projecting
\* (File.File, File.FileName, Component.Directory_): an inner join keeps a
\* file row only when its component has a row
JoinedRows(db) ==
    SelectSeq(FileOrder,
              LAMBDA f : f \in DOMAIN db.File
                         /\ db.File[f].comp \in DOMAIN db.Component)

RECURSIVE file_map_from(_, _, _, _)
\* the loop over the joined rows, from row i on, map being file_map so far
file_map_from(db, rows, i, map) ==
    IF i > Len(rows) THEN Ok(map)
    ELSE LET file_id == rows[i]
             file_name == get_long_file_name(db.File[file_id].name)
             directory == get_directory_parent(
                              db.Component[db.File[file_id].comp], db.Directory)
         IN  IF ~directory.ok THEN directory
             ELSE file_map_from(db, rows, i + 1,
                      [g \in DOMAIN map \cup {file_id} |->
                          IF g = file_id THEN Join(directory.val, file_name)
                          ELSE map[g]])

EmptyMap == [g \in {} |-> << >>]

\* file id -> resolved path, or the first error
BuildFileMap(db) == file_map_from(db, JoinedRows(db), 1, EmptyMap)

\* ------------------------------------------------------ archive normaliser

\* Bytes of a stream, a zip entry or a download: an installer database, a
\* cabinet (its entries in listing order) or anything else
NoDb == [Directory |-> << >>, Component |-> << >>, File |-> << >>, streams |-> << >>]
MsiBytes(db) == [kind |-> "msi", db |-> db, entries |-> << >>, tag |-> ""]
CabBytes(entries, tag) == [kind |-> "cab", db |-> NoDb, entries |-> entries, tag |-> tag]
\* neither a database, a cabinet nor a zip
RawBytes(tag) == [kind |-> "raw", db |-> NoDb, entries |-> << >>, tag |-> tag]
\* a zip entry whose data cannot be read back (a failed checksum)
BadBytes(tag) == [kind |-> "unreadable", db |-> NoDb, entries |-> << >>, tag |-> tag]
ZipBytes(entries) == [kind |-> "zip", db |-> NoDb, entries |-> entries, tag |-> ""]

\* a file or stream name is << stem, extension >>; a zip entry adds its folder
EndsWith(name, ext) == Last(name) = ext
BaseName(zip_name) == SubSeq(zip_name, Len(zip_name) - 1, Len(zip_name))

StreamIndex(streams, name) ==
    {i \in 1..Len(streams) : streams[i].name = name}

\* Package::write_stream then write_all: creates the stream, or replaces the
\* bytes of the stream that already has this name
WriteStream(streams, name, bytes) ==
    IF StreamIndex(streams, name) # {}
    THEN [i \in 1..Len(streams) |->
             IF streams[i].name = name THEN [name |-> name, bytes |-> bytes]
             ELSE streams[i]]
    ELSE Append(streams, [name |-> name, bytes |-> bytes])

RECURSIVE AttachCabs(_, _, _)
\* the loop over the zip's names ending in ".cab", from entry i on
AttachCabs(zip_entries, i, streams) ==
    IF i > Len(zip_entries) THEN Ok(streams)
    ELSE IF EndsWith(zip_entries[i].name, ".cab")
         THEN IF zip_entries[i].bytes.kind = "unreadable"
              THEN Err("invalid zip entry")
              ELSE AttachCabs(zip_entries, i + 1,
                       WriteStream(streams, BaseName(zip_entries[i].name),
                                   zip_entries[i].bytes))
         ELSE AttachCabs(zip_entries, i + 1, streams)

\* the package of lines 260-312: [db, streams], or the error
Normalize(download_url, file) ==
    IF EndsWith(download_url, ".zip")
    THEN IF file.kind # "zip" THEN Err("invalid zip archive")
         ELSE LET msis == {i \in 1..Len(file.entries) :
                              EndsWith(file.entries[i].name, ".msi")}
              IN  IF msis = {} THEN Err("couldn't find msi in zip")
                  ELSE LET first == CHOOSE i \in msis : \A j \in msis : i <= j
                           msi_buffer == file.entries[first].bytes
                           package == AttachCabs(file.entries, 1,
                                                 msi_buffer.db.streams)
                       IN  IF msi_buffer.kind # "msi" THEN Err("invalid msi")
                           ELSE IF ~package.ok THEN package
                           ELSE Ok([db |-> msi_buffer.db, streams |-> package.val])
    ELSE IF file.kind # "msi" THEN Err("invalid msi")
         ELSE Ok([db |-> file.db, streams |-> file.db.streams])

\* --------------------------------------------------------- manifest client

\* the parsed sdk.json the server of this product line answers with:
\* [game_versions |-> sequence of [downloads_menu, release_notes]], where
\* downloads_menu maps a menu title to [has_value, value]
NoUrl == << "", "" >>
Menu(url) == [k \in {CORE_INSTALLER_KEY} |-> [has_value |-> TRUE, value |-> url]]
MenuNoValue == [k \in {CORE_INSTALLER_KEY} |-> [has_value |-> FALSE, value |-> NoUrl]]
MenuNoCore == [k \in {"Samples"} |-> [has_value |-> TRUE, value |-> << "samples", ".zip" >>]]

NoGameVersion == [downloads_menu |-> MenuNoCore, release_notes |-> << >>]

\* a plausible slip: the manifest's last entry instead of its first
get_latest_sdk_release_last(manifest, net_ok) ==
    IF ~net_ok THEN [ok |-> FALSE, val |-> NoGameVersion, err |-> "network"]
    ELSE IF Len(manifest.game_versions) = 0
         THEN [ok |-> FALSE, val |-> NoGameVersion,
               err |-> "can't find game version for SDK"]
         ELSE [ok |-> TRUE, val |-> Last(manifest.game_versions), err |-> ""]

\* net_ok: whether the GET of sdk.json and the reading of its text succeed
get_latest_sdk_release(manifest, net_ok) ==
    IF ~net_ok THEN [ok |-> FALSE, val |-> NoGameVersion, err |-> "network"]
    ELSE IF Len(manifest.game_versions) = 0
         THEN [ok |-> FALSE, val |-> NoGameVersion,
               err |-> "can't find game version for SDK"]
         ELSE [ok |-> TRUE, val |-> manifest.game_versions[1], err |-> ""]

get_latest_sdk_version(v, manifest, net_ok) ==
    LET release == get_latest_sdk_release(manifest, net_ok) IN
    IF ~release.ok THEN [ok |-> FALSE, val |-> "", err |-> release.err]
    ELSE IF Len(release.val.release_notes) = 0
         THEN [ok |-> FALSE, val |-> "", err |-> "no available sdk version"]
         ELSE IF v = Msfs2020
              THEN [ok |-> TRUE, val |-> Last(release.val.release_notes), err |-> ""]
              ELSE [ok |-> TRUE, val |-> release.val.release_notes[1], err |-> ""]

\* the release identifier install_latest_sdk records (lines 225-228)
install_release_number(v, release) ==
    IF Len(release.release_notes) = 0
    THEN [ok |-> FALSE, val |-> "", err |-> "couldn't get latest release number"]
    ELSE [ok |-> TRUE, val |-> Last(release.release_notes), err |-> ""]

\* ------------------------------------------------------------- download loop

CHUNK_SIZE == 1024

\* the lengths a response announces: an empty body, one full buffer, and a
\* body that ends inside its second buffer
ContentLengths == {0, CHUNK_SIZE, CHUNK_SIZE + 476}

\* what response.read may return with `left` bytes of the body to come: at
\* most a buffer, at most what is left, and possibly less (a short read)
ReadSizes(left) ==
    { n \in {500, CHUNK_SIZE, left} : n > 0 /\ n <= left /\ n <= CHUNK_SIZE }

\* the first argument of the callback, read after write_all moved the cursor
\* to pos: file.position() + data_size
callback_downloaded(pos, data_size) == pos + data_size

\* ------------------------------------------------------ install state store

\* the installation root of one product line: whether the directory exists
\* and, by path below it, each file's data and the command run that wrote it
\* (run 0: it was there before the first command)
NoFiles == [p \in {} |-> [data |-> "", run |-> 0]]
NoRoot == [exists |-> FALSE, files |-> NoFiles]

WriteFile(files, path, data, r) ==
    [p \in DOMAIN files \cup {path} |->
        IF p = path THEN [data |-> data, run |-> r] ELSE files[p]]

None == [some |-> FALSE, val |-> ""]
Some(v) == [some |-> TRUE, val |-> v]

get_installed_sdk_version(r) ==
    IF r.exists /\ VERSION_FILE_NAME \in DOMAIN r.files
    THEN Some(r.files[VERSION_FILE_NAME].data)
    ELSE None

\* a plausible slip: the directory is left as it is
remove_sdk_version_keep(r) == r

\* remove_sdk_version: the root after it
remove_sdk_version(r) == IF r.exists THEN NoRoot ELSE r

\* a plausible slip: remove_dir_all without the exists() check, which fails
\* on a path that is not there
try_remove_sdk_version_unchecked(r, io_ok) ==
    IF r.exists /\ io_ok THEN [ok |-> TRUE, root |-> remove_sdk_version(r)]
    ELSE [ok |-> FALSE, root |-> r]

\* remove_sdk_version's Result: io_ok is whether fs::remove_dir_all, called
\* only when the path exists, succeeds
try_remove_sdk_version(r, io_ok) ==
    IF r.exists /\ ~io_ok THEN [ok |-> FALSE, root |-> r]
    ELSE [ok |-> TRUE, root |-> remove_sdk_version(r)]

\* fs::create_dir_all on the root
create_dir_all(r) == IF r.exists THEN r ELSE [exists |-> TRUE, files |-> NoFiles]

extract_from(v) ==
    IF v = Msfs2020 THEN MSFS2020_SDK_EXTRACT_FROM ELSE MSFS2024_SDK_EXTRACT_FROM

\* Cabinet::new(stream) is Ok
IsCabinet(bytes) == bytes.kind = "cab"

\* a plausible slip: an entry without a mapped path is passed over
LookupLenient(map, cab_file_name) ==
    IF cab_file_name \in DOMAIN map THEN Ok(map[cab_file_name]) ELSE Ok(<< >>)

\* file_map.get(&cab_file_name).context(..)
Lookup(map, cab_file_name) ==
    IF cab_file_name \in DOMAIN map THEN Ok(map[cab_file_name])
    ELSE Err("couldn't find mapped file name")

\* ------------------------------------------------------------------ inputs

\* the commands one behaviour runs, one after the other
MaxRuns == 2

\* Directory tables: TARGETDIR <- ProgramFiles (".") <- INSTALLDIR <- WASM,
\* and TARGETDIR <- Docs; `missing` are the ids whose rows are left out
DirectoryRows(sdk_name) ==
    [d \in DirIds |->
        CASE d = "TARGETDIR" -> [parent |-> NULL, name |-> << "SourceDir" >>]
          [] d = "ProgramFiles" -> [parent |-> "TARGETDIR", name |-> << "." >>]
          [] d = "INSTALLDIR" -> [parent |-> "ProgramFiles", name |-> sdk_name]
          [] d = "WASM" -> [parent |-> "INSTALLDIR", name |-> << "WASM" >>]
          [] d = "Docs" -> [parent |-> "TARGETDIR",
                            name |-> << "DOCS~1", "|", "Docs" >>]]

Restrict(f, S) == [x \in S |-> f[x]]

DirectoryTable(sdk_name, missing) ==
    Restrict(DirectoryRows(sdk_name), DirIds \ missing)

SdkNames == { << "MSFS SDK" >>, << "MSFSSD~1", "|", "MSFS SDK" >>,
              << "MSFS 2024 SDK" >> }

\* Component table: component -> Directory_; cGhost names a directory that
\* has no row, cOrphan is a component no row defines
ComponentRows ==
    [c \in {"cCore", "cWasm", "cDocs", "cGhost"} |->
        CASE c = "cCore" -> "INSTALLDIR"
          [] c = "cWasm" -> "WASM"
          [] c = "cDocs" -> "Docs"
          [] c = "cGhost" -> "Ghost"]

FileNames ==
    [f \in FileIds |->
        CASE f = "f1" -> << "a.h" >>
          [] f = "f2" -> << "B~1.H", "|", "b.h" >>
          [] f = "f3" -> << "c.h" >>]

\* File table from comp_of: file id -> its component, or "absent" (no row)
FileTable(comp_of) ==
    [f \in {g \in FileIds : comp_of[g] # "absent"} |->
        [name |-> FileNames[f], comp |-> comp_of[f]]]

SummaryStream == [name |-> << "SummaryInformation", "" >>, bytes |-> RawBytes("summary")]
SdkCab == [name |-> << "sdk", ".cab" >>, bytes |-> CabBytes(<< "f1", "f2" >>, "sdk")]
ExtraCab == [name |-> << "extra", ".cab" >>, bytes |-> CabBytes(<< "f3" >>, "extra")]

Database(sdk_name, missing, comp_of, streams) ==
    [Directory |-> DirectoryTable(sdk_name, missing),
     Component |-> ComponentRows,
     File |-> FileTable(comp_of),
     streams |-> streams]

CompChoices ==
    { c \in [FileIds -> {"cCore", "cWasm", "cDocs", "cGhost", "cOrphan", "absent"}] :
        /\ c["f2"] \in {"cWasm", "cDocs", "cOrphan"}
        /\ c["f3"] \in {"cCore", "cOrphan", "absent"} }

\* bare installer databases with their cabinets embedded
MsiPayloads ==
    { MsiBytes(Database(n, m, c, s)) :
        n \in SdkNames, m \in {{}, {"ProgramFiles"}}, c \in CompChoices,
        s \in { << SdkCab, SummaryStream, ExtraCab >>, << SummaryStream, SdkCab >> } }

\* Directory tables over three ids with any parent links, looping ones
\* included, and names with no, one or two '|'
TreeIds == {"INSTALLDIR", "WASM"}
TreeNames == { << "." >>, << "MSFSSD~1", "|", "MSFS SDK" >>,
               << "x", "|", "y", "|", "WASM" >> }
TreeTables ==
    { [d \in {"TARGETDIR"} \cup TreeIds |->
          IF d = "TARGETDIR" THEN [parent |-> NULL, name |-> << "SourceDir" >>]
          ELSE [parent |-> up[d], name |-> nm[d]]] :
        up \in [TreeIds -> TreeIds \cup {"TARGETDIR", "Docs"}],
        nm \in [TreeIds -> TreeNames] }

TreeComps == [f \in FileIds |->
                 CASE f = "f1" -> "cCore" [] f = "f2" -> "cWasm" [] f = "f3" -> "absent"]

TreePayloads ==
    { MsiBytes([Directory |-> t, Component |-> ComponentRows,
                File |-> FileTable(TreeComps),
                streams |-> << SdkCab >>]) : t \in TreeTables }

\* a database that installs, one whose second cabinet entry has no row, and
\* a download that is no database
GoodMsi == MsiBytes(Database(<< "MSFS SDK" >>, {},
               [f \in FileIds |-> CASE f = "f1" -> "cCore" [] f = "f2" -> "cWasm"
                                      [] f = "f3" -> "cDocs"],
               << SdkCab, SummaryStream, ExtraCab >>))
Good2024Msi == MsiBytes(Database(<< "MSFS 2024 SDK" >>, {},
               [f \in FileIds |-> CASE f = "f1" -> "cCore" [] f = "f2" -> "cWasm"
                                      [] f = "f3" -> "cDocs"],
               << SdkCab, SummaryStream, ExtraCab >>))
HalfMsi == MsiBytes(Database(<< "MSFS SDK" >>, {},
               [f \in FileIds |-> CASE f = "f1" -> "cCore" [] f = "f2" -> "cOrphan"
                                      [] f = "f3" -> "cCore"],
               << SdkCab, SummaryStream, ExtraCab >>))
CommandPayloads == { GoodMsi, Good2024Msi, HalfMsi, RawBytes("html") }

GoodComps == [f \in FileIds |->
                 CASE f = "f1" -> "cCore" [] f = "f2" -> "cWasm" [] f = "f3" -> "cDocs"]

ZipEntry(folder, stem, ext, bytes) ==
    [name |-> << folder, stem, ext >>, bytes |-> bytes]

\* what a zip bundle may hold beside or instead of the database
ZipMsi(n, embedded) ==
    ZipEntry("", "pkg", ".msi", MsiBytes(Database(n, {}, GoodComps, embedded)))
ZipParts(n) ==
    { ZipMsi(n, << SummaryStream >>),
      ZipMsi(n, << SummaryStream, ExtraCab >>),
      ZipMsi(n, << [name |-> << "sdk", ".cab" >>,
                    bytes |-> CabBytes(<< "f3" >>, "embedded")] >>),
      ZipEntry("", "readme", ".txt", RawBytes("readme")),
      ZipEntry("a", "sdk", ".cab", CabBytes(<< "f1", "f2" >>, "a")),
      ZipEntry("b", "sdk", ".cab", CabBytes(<< "f2" >>, "b")),
      ZipEntry("", "extra", ".cab", CabBytes(<< "f3" >>, "x")),
      ZipEntry("", "broken", ".cab", BadBytes("broken")) }

\* the entries of the largest zip bundle drawn
MaxZipEntries == 3

\* zip bundles: entries in the archive's listing order, names distinct
ZipPayloads ==
    UNION { { ZipBytes(e) :
                e \in { z \in [1..k -> ZipParts(<< "MSFS SDK" >>)] :
                          \A i, j \in 1..k : i # j => z[i].name # z[j].name } } :
            k \in 1..MaxZipEntries }

Releases == { << >>, << "1.0.0" >>, << "1.0.0", "1.1.0" >>, << "1.1.0", "1.0.0" >> }
OlderGameVersion ==
    [downloads_menu |-> Menu(<< "old", ".msi" >>), release_notes |-> << "0.9.0" >>]

ManifestOf(menu, notes) ==
    [game_versions |->
        << [downloads_menu |-> menu, release_notes |-> notes], OlderGameVersion >>]
EmptyManifest == [game_versions |-> << >>]

MsiUrl == << "sdk", ".msi" >>
ZipUrl == << "sdk", ".zip" >>

\* roots a command may find: none, one left by a finished install of an
\* older release, and one with files but no install record
StaleFile == << << "include" >>, << "old.h" >> >>
OldRoot == [exists |-> TRUE,
            files |-> WriteFile(WriteFile(NoFiles, VERSION_FILE_NAME, "0.9.0", 0),
                                StaleFile, "old", 0)]
LitterRoot == [exists |-> TRUE, files |-> WriteFile(NoFiles, StaleFile, "old", 0)]
\* ------------------------------------------------------------------- state

VARIABLES
    version,        \* the product line the commands are run for
    server,         \* [manifest, payload]: what the vendor's server answers
    root,           \* the installation root of that product line
    run,            \* commands started so far
    cmd,            \* the command running or last run
    pc,             \* where the running command stands; "idle" between commands
    outcome,        \* how the last command ended
    log,            \* what the running (or last) command did, in order
    release_number, \* install_latest_sdk's locals
    download_url,
    file,
    msi,
    file_map,
    stream_i,       \* the stream the extraction loop is at
    entry_i,        \* the entry of that stream's cabinet it is at
    content_length, \* the length the response announced
    position,       \* file.position(): the bytes written to the cursor
    calls           \* the progress callback's calls of this download

vars == << version, server, root, run, cmd, pc, outcome, log, release_number,
           download_url, file, msi, file_map, stream_i, entry_i,
           content_length, position, calls >>

progress == << content_length, position, calls >>

locals == << release_number, download_url, file, msi, file_map, stream_i, entry_i,
            content_length, position, calls >>

Event(ev, f, path) == [ev |-> ev, file |-> f, path |-> path]
Did(ev) == Event(ev, "", << >>)

NoPackage == [db |-> NoDb, streams |-> << >>]

ClearLocals ==
    /\ release_number' = ""
    /\ download_url' = NoUrl
    /\ file' = RawBytes("")
    /\ msi' = NoPackage
    /\ file_map' = EmptyMap
    /\ stream_i' = 0
    /\ entry_i' = 0
    /\ content_length' = 0
    /\ position' = 0
    /\ calls' = << >>

InitWith(manifests, payloads, roots) ==
    /\ version \in SimulatorVersion
    /\ server \in [manifest : manifests, payload : payloads]
    /\ root \in roots
    /\ run = 0
    /\ cmd = "none"
    /\ pc = "idle"
    /\ outcome = "none"
    /\ log = << >>
    /\ release_number = ""
    /\ download_url = NoUrl
    /\ file = RawBytes("")
    /\ msi = NoPackage
    /\ file_map = EmptyMap
    /\ stream_i = 0
    /\ entry_i = 0
    /\ content_length = 0
    /\ position = 0
    /\ calls = << >>

\* the command returns: Ok with an outcome, or Err
Return(result) ==
    /\ pc' = "idle"
    /\ outcome' = result
    /\ ClearLocals

\* ------------------------------------------------------------ main: install

\* main.rs 128-136: read the install record, stop if there is one
StartInstall ==
    /\ pc = "idle"
    /\ run < MaxRuns
    /\ run' = run + 1
    /\ cmd' = "install"
    /\ log' = << Did("read_store") >>
    /\ IF get_installed_sdk_version(root).some
       THEN Return("already installed")
       ELSE /\ pc' = "clear"
            /\ outcome' = "running"
            /\ UNCHANGED locals
    /\ UNCHANGED << version, server, root >>

\* sdk.rs 211-214: remove_sdk_version, create_dir_all
Clear ==
    /\ pc = "clear"
    /\ \E io_ok, dir_ok \in BOOLEAN :
        LET removed == try_remove_sdk_version(root, io_ok) IN
        IF ~removed.ok
        THEN /\ Return("error")
             /\ log' = Append(log, Did("remove_failed"))
             /\ UNCHANGED root
        ELSE IF ~dir_ok
        THEN /\ Return("error")
             /\ root' = removed.root
             /\ log' = Append(log, Did("mkdir_failed"))
        ELSE /\ root' = create_dir_all(removed.root)
             /\ log' = Append(log, Did("clear"))
             /\ pc' = "manifest"
             /\ UNCHANGED << outcome, locals >>
    /\ UNCHANGED << version, server, run, cmd >>

\* sdk.rs 216-228: the latest release, its download url and release number
FetchRelease ==
    /\ pc = "manifest"
    /\ log' = Append(log, Did("fetch_manifest"))
    /\ \E net_ok \in BOOLEAN :
        LET latest_sdk == get_latest_sdk_release(server.manifest, net_ok)
            menu == latest_sdk.val.downloads_menu
            number == install_release_number(version, latest_sdk.val)
        IN  IF /\ latest_sdk.ok
               /\ CORE_INSTALLER_KEY \in DOMAIN menu
               /\ menu[CORE_INSTALLER_KEY].has_value
               /\ number.ok
            THEN /\ download_url' = menu[CORE_INSTALLER_KEY].value
                 /\ release_number' = number.val
                 /\ pc' = "download"
                 /\ UNCHANGED << outcome, file, msi, file_map, stream_i, entry_i, progress >>
            ELSE Return("error")
    /\ UNCHANGED << version, server, root, run, cmd >>

\* sdk.rs 230-243: GET the installer; the response must announce its length
Download ==
    /\ pc = "download"
    /\ log' = Append(log, Did("download"))
    /\ \E net_ok, has_length \in BOOLEAN, length \in ContentLengths :
        IF net_ok /\ has_length
        THEN /\ content_length' = length
             /\ position' = 0
             /\ calls' = << >>
             /\ pc' = "chunks"
             /\ UNCHANGED << outcome, release_number, download_url, file, msi,
                             file_map, stream_i, entry_i >>
        ELSE Return("error")
    /\ UNCHANGED << version, server, root, run, cmd >>

\* sdk.rs 244-257, one turn of the loop: response.read fails, or returns 0
\* at the end of the body, or returns data_size bytes, which are written to
\* the cursor before the callback main passes is called
ReadChunk ==
    /\ pc = "chunks"
    /\ \E read_ok \in BOOLEAN :
        IF ~read_ok THEN Return("error")
        ELSE IF position = content_length
        THEN /\ file' = server.payload
             /\ pc' = "parse"
             /\ content_length' = 0
             /\ position' = 0
             /\ calls' = << >>
             /\ UNCHANGED << outcome, release_number, download_url, msi,
                             file_map, stream_i, entry_i >>
        ELSE \E data_size \in ReadSizes(content_length - position) :
             /\ position' = position + data_size
             /\ calls' = Append(calls, [downloaded |-> callback_downloaded(position', data_size),
                                        total |-> content_length])
             /\ UNCHANGED << pc, outcome, release_number, download_url, file,
                             msi, file_map, stream_i, entry_i, content_length >>
    /\ UNCHANGED << version, server, root, run, cmd, log >>

\* sdk.rs 259-346: normalise the download, query the tables, build file_map
Parse ==
    /\ pc = "parse"
    /\ LET package == Normalize(download_url, file) IN
       IF ~package.ok THEN Return("error") /\ UNCHANGED log
       ELSE LET map == BuildFileMap(package.val.db) IN
            IF ~map.ok
            THEN /\ Return(IF map.err = "stack overflow" THEN "crashed" ELSE "error")
                 /\ UNCHANGED log
            ELSE /\ msi' = package.val
                 /\ file_map' = map.val
                 /\ pc' = "version"
                 /\ log' = Append(log, Did("parsed"))
                 /\ UNCHANGED << outcome, release_number, download_url, file,
                                 stream_i, entry_i, progress >>
    /\ UNCHANGED << version, server, root, run, cmd >>

\* sdk.rs 348-350: the install record
WriteVersion ==
    /\ pc = "version"
    /\ root' = [root EXCEPT !.files =
                   WriteFile(root.files, VERSION_FILE_NAME, release_number, run)]
    /\ log' = Append(log, Event("write_version", release_number, << >>))
    /\ pc' = "extract"
    /\ stream_i' = 1
    /\ entry_i' = 1
    /\ UNCHANGED << version, server, run, cmd, outcome, release_number,
                    download_url, file, msi, file_map, progress >>

\* sdk.rs 359-397, one turn of the loops: leave a stream that is no cabinet
\* or whose entries are done, else handle the entry the loop is at
Extract ==
    /\ pc = "extract"
    /\ IF stream_i > Len(msi.streams)
       THEN /\ Return(IF cmd = "install" THEN "installed" ELSE "updated")
            /\ UNCHANGED << root, log >>
       ELSE LET stream == msi.streams[stream_i].bytes IN
            IF ~IsCabinet(stream) \/ entry_i > Len(stream.entries)
            THEN /\ stream_i' = stream_i + 1
                 /\ entry_i' = 1
                 /\ UNCHANGED << root, log, pc, outcome, release_number,
                                 download_url, file, msi, file_map, progress >>
            ELSE LET cab_file_name == stream.entries[entry_i]
                     found == Lookup(file_map, cab_file_name)
                 IN
                 IF ~found.ok
                 THEN /\ Return("error")
                      /\ log' = Append(log, Event("lookup_failed", cab_file_name, << >>))
                      /\ UNCHANGED root
                 ELSE LET entry == found.val IN
                      IF ~StartsWith(entry, extract_from(version))
                      THEN /\ entry_i' = entry_i + 1
                           /\ log' = Append(log, Event("passed", cab_file_name, entry))
                           /\ UNCHANGED << root, pc, outcome, release_number,
                                           download_url, file, msi, file_map,
                                           stream_i, progress >>
                      ELSE LET out_file_path ==
                                   StripPrefix(entry, extract_from(version))
                           IN  \E io \in {"ok", "create failed", "copy failed"} :
                               CASE io = "ok" ->
                                      /\ root' = [root EXCEPT !.files =
                                             WriteFile(root.files, out_file_path,
                                                       cab_file_name, run)]
                                      /\ log' = Append(log,
                                             Event("write", cab_file_name, out_file_path))
                                      /\ entry_i' = entry_i + 1
                                      /\ UNCHANGED << pc, outcome, release_number,
                                                      download_url, file, msi,
                                                      file_map, stream_i, progress >>
                                 [] io = "create failed" ->
                                      /\ log' = Append(log,
                                             Event("create_failed", cab_file_name,
                                                   out_file_path))
                                      /\ Return("error")
                                      /\ UNCHANGED root
                                 [] io = "copy failed" ->
                                      /\ root' = [root EXCEPT !.files =
                                             WriteFile(root.files, out_file_path,
                                                       "truncated", run)]
                                      /\ log' = Append(log,
                                             Event("write_failed", cab_file_name,
                                                   out_file_path))
                                      /\ Return("error")
    /\ UNCHANGED << version, server, run, cmd >>

\* ------------------------------------------------------------- main: update

\* main.rs 168-180: the latest version, the install record, the comparison
StartUpdate ==
    /\ pc = "idle"
    /\ run < MaxRuns
    /\ run' = run + 1
    /\ cmd' = "update"
    /\ \E net_ok \in BOOLEAN :
        LET latest_release == get_latest_sdk_version(version, server.manifest, net_ok)
            installed_version == get_installed_sdk_version(root)
        IN  IF ~latest_release.ok
            THEN /\ log' = << Did("fetch_manifest") >>
                 /\ Return("error")
            ELSE /\ log' = << Event("fetch_manifest", latest_release.val, << >>),
                           Did("read_store") >>
                 /\ IF installed_version = Some(latest_release.val)
                    THEN Return("latest already installed")
                    ELSE IF ~installed_version.some
                    THEN Return("not installed")
                    ELSE /\ pc' = "clear"
                         /\ outcome' = "running"
                         /\ UNCHANGED locals
    /\ UNCHANGED << version, server, root >>

\* ------------------------------------------------------------- main: remove

\* main.rs 159-167
StartRemove ==
    /\ pc = "idle"
    /\ run < MaxRuns
    /\ run' = run + 1
    /\ cmd' = "remove"
    /\ IF root.exists
       THEN \E io_ok \in BOOLEAN :
            LET removed == try_remove_sdk_version(root, io_ok) IN
            IF removed.ok
            THEN /\ root' = removed.root
                 /\ log' = << Did("clear") >>
                 /\ Return("deleted")
            ELSE /\ Return("error")
                 /\ log' = << Did("remove_failed") >>
                 /\ UNCHANGED root
       ELSE /\ Return("nothing to remove")
            /\ log' = << >>
            /\ UNCHANGED root
    /\ UNCHANGED << version, server >>

Next ==
    \/ StartInstall
    \/ StartUpdate
    \/ StartRemove
    \/ Clear
    \/ FetchRelease
    \/ Download
    \/ ReadChunk
    \/ Parse
    \/ WriteVersion
    \/ Extract

\* ---------------------------------------------------------- specifications

CommandManifests ==
    { ManifestOf(Menu(MsiUrl), n) : n \in Releases }
    \cup { EmptyManifest, ManifestOf(MenuNoCore, << "1.0.0" >>),
           ManifestOf(MenuNoValue, << "1.0.0" >>) }

GoodManifest == ManifestOf(Menu(MsiUrl), << "1.0.0", "1.1.0" >>)
ZipManifest == ManifestOf(Menu(ZipUrl), << "1.0.0", "1.1.0" >>)

Init ==
    \/ InitWith(CommandManifests, CommandPayloads, {NoRoot, OldRoot, LitterRoot})
    \/ InitWith({GoodManifest}, MsiPayloads \cup TreePayloads, {NoRoot, OldRoot})
    \/ InitWith({ZipManifest}, ZipPayloads \cup {GoodMsi}, {NoRoot})
    \/ InitWith({GoodManifest}, {ZipBytes(<< ZipMsi(<< "MSFS SDK" >>, << SdkCab >>) >>)},
                {NoRoot})

Spec == Init /\ [][Next]_vars

\* ------------------------------------------------------------------ claims

HasEvent(l, ev) == \E i \in 1..Len(l) : l[i].ev = ev
EventIndex(l, ev) == CHOOSE i \in 1..Len(l) : l[i].ev = ev

\* what the extraction loop did so far in this run: the events after the
\* install record was written
ExtractionEvents ==
    IF HasEvent(log, "write_version")
    THEN SubSeq(log, EventIndex(log, "write_version") + 1, Len(log))
    ELSE << >>

\* the target prefix as the claims word it: ".", then the SDK folder
SdkFolder == IF version = Msfs2020 THEN << "MSFS SDK" >> ELSE << "MSFS 2024 SDK" >>
UnderPrefix(path) ==
    Len(path) >= 3 /\ path[1] = << "." >> /\ path[2] = SdkFolder
MinusPrefix(path) == [i \in 1..(Len(path) - 2) |-> path[i + 2]]

RECURSIVE EntriesUpTo(_, _, _)
\* the cabinet entries the loop has handled when it stands at (si, ei): every
\* entry of the cabinets before stream si, and the first ei - 1 of stream si
EntriesUpTo(streams, si, ei) ==
    IF si = 0 THEN << >>
    ELSE LET before == EntriesUpTo(streams, si - 1,
                           IF si - 1 >= 1 /\ si - 1 <= Len(streams)
                           THEN Len(streams[si - 1].bytes.entries) + 1 ELSE 1)
         IN  IF si > Len(streams) \/ streams[si].bytes.kind # "cab" THEN before
             ELSE before \o SubSeq(streams[si].bytes.entries, 1, ei - 1)

ExtractionDone == pc = "extract" /\ stream_i > Len(msi.streams)

\* C1: an extraction that has met no failure has, for the cabinet entries
\* handled so far and in their order, written exactly the entries whose
\* resolved path starts with the product line's prefix, each at the root
\* joined with the path minus the prefix (the last writer of a path decides
\* its data), and has only passed over, never read or written, the others;
\* when the loops are done this covers every entry of every cabinet.
C1_ExtractsExactlyPrefix ==
    pc = "extract" =>
        LET handled == EntriesUpTo(msi.streams, stream_i, entry_i)
            events == ExtractionEvents
        IN  /\ Len(events) = Len(handled)
            /\ \A i \in 1..Len(handled) :
                 LET f == handled[i] IN
                 /\ f \in DOMAIN file_map
                 /\ events[i] =
                      IF UnderPrefix(file_map[f])
                      THEN Event("write", f, MinusPrefix(file_map[f]))
                      ELSE Event("passed", f, file_map[f])
                 /\ UnderPrefix(file_map[f]) =>
                      /\ MinusPrefix(file_map[f]) \in DOMAIN root.files
                      /\ root.files[MinusPrefix(file_map[f])].run = run
                      /\ \E j \in i..Len(handled) :
                           /\ events[j].ev = "write"
                           /\ events[j].path = events[i].path
                           /\ root.files[events[i].path].data = events[j].file
            /\ \A p \in DOMAIN root.files :
                 p # VERSION_FILE_NAME =>
                     \E i \in 1..Len(events) :
                         events[i].ev = "write" /\ events[i].path = p

C1_Witness ==
    /\ ExtractionDone
    /\ \E i \in 1..Len(log) : log[i].ev = "write"
    /\ \E i \in 1..Len(log) : log[i].ev = "passed"

\* a command that reached the extraction, or failed after the install record
\* was written
WroteVersion == HasEvent(log, "write_version")

\* C2: re-running install after an install that failed partway through the
\* extraction clears the root again and extracts afresh: the new run goes on
\* to the clearing step instead of accepting the partial root as installed.
C2_RerunClearsAgain ==
    [][ ( /\ pc = "idle"
          /\ outcome = "error"
          /\ cmd \in {"install", "update"}
          /\ WroteVersion
          /\ cmd' = "install"
          /\ run' = run + 1 )
        => pc' = "clear" ]_vars

\* C3: the release identifier a successful install has recorded is the one
\* get_latest_sdk_version returns for the same manifest, for either product
\* line.
C3_RecordedIsLatest ==
    (pc = "idle" /\ outcome \in {"installed", "updated"}) =>
        LET latest == get_latest_sdk_version(version, server.manifest, TRUE)
        IN  latest.ok /\ get_installed_sdk_version(root) = Some(latest.val)

\* C3, as the update command shows it: an update run directly after a
\* successful install, the manifest fetched, reports the latest SDK as
\* already installed.
C3_UpdateAfterInstall ==
    [][ ( /\ pc = "idle"
          /\ outcome \in {"installed", "updated"}
          /\ cmd' = "update"
          /\ run' = run + 1
          /\ outcome' # "error" )
        => outcome' = "latest already installed" ]_vars

WriteEvents == {"write_version", "write", "write_failed"}

\* the run has cleared the root
Cleared == cmd \in {"install", "update"} /\ HasEvent(log, "clear")

\* C4: in a run of install_latest_sdk the root is cleared before the install
\* record or any extracted file is written, and from then on, the successful
\* end included, every file under the root was written by this run: the
\* install record or a file the extraction wrote.
C4_ClearedBeforeWrites ==
    /\ \A i \in 1..Len(log) :
         log[i].ev \in WriteEvents => \E j \in 1..(i - 1) : log[j].ev = "clear"
    /\ Cleared =>
         /\ root.exists
         /\ \A p \in DOMAIN root.files :
              /\ root.files[p].run = run
              /\ \/ p = VERSION_FILE_NAME /\ HasEvent(log, "write_version")
                 \/ \E i \in 1..Len(log) :
                       log[i].ev \in {"write", "write_failed"} /\ log[i].path = p

\* an update of the root an older install left behind ran to its end
C4_Witness ==
    /\ pc = "idle"
    /\ outcome = "updated"
    /\ run = 1
    /\ HasEvent(log, "write")
    /\ StaleFile \notin DOMAIN root.files

\* C5: install and update read the install record before any network fetch.
C5_StoreReadFirst ==
    (cmd \in {"install", "update"} /\ log # << >>) => log[1].ev = "read_store"

\* C5, its particular case: update on a root without an install record ends
\* "not installed" without a network fetch, so never in an error.
C5_UpdateNotInstalled ==
    [][ ( /\ pc = "idle"
          /\ ~get_installed_sdk_version(root).some
          /\ cmd' = "update"
          /\ run' = run + 1 )
        => (outcome' = "not installed" /\ ~HasEvent(log', "fetch_manifest")) ]_vars

\* the run normalised a zip bundle and went on
NormalizedZip ==
    /\ pc \in {"version", "extract"}
    /\ EndsWith(download_url, ".zip")

CabEntries == {i \in 1..Len(file.entries) : file.entries[i].name[3] = ".cab"}
CabBase(i) == << file.entries[i].name[2], file.entries[i].name[3] >>
\* the database the bundle holds: its first entry ending in ".msi"
BundledDb ==
    LET msis == {i \in 1..Len(file.entries) : file.entries[i].name[3] = ".msi"}
    IN  file.entries[CHOOSE i \in msis : \A j \in msis : i <= j].bytes.db
StreamNames(streams) == {streams[i].name : i \in 1..Len(streams)}

\* C6: normalising a zip bundle fails as a whole whenever attaching a cabinet
\* fails: a normalisation that went through met no unreadable cabinet entry,
\* no two cabinet entries with one base name, and no cabinet whose base name
\* is the name of a stream the database already had.
C6_CollisionFails ==
    NormalizedZip =>
        /\ \A i \in CabEntries : file.entries[i].bytes.kind # "unreadable"
        /\ \A i, j \in CabEntries : i # j => CabBase(i) # CabBase(j)
        /\ \A i \in CabEntries : CabBase(i) \notin StreamNames(BundledDb.streams)

\* C10: after normalising a zip bundle every entry ending in ".cab" is a
\* stream named by its base name whose bytes are the entry's, and every
\* stream the database had is still there.
C10_CabsAttached ==
    NormalizedZip =>
        /\ \A i \in CabEntries :
             \E k \in 1..Len(msi.streams) :
                 /\ msi.streams[k].name = CabBase(i)
                 /\ msi.streams[k].bytes = file.entries[i].bytes
        /\ StreamNames(BundledDb.streams) \subseteq StreamNames(msi.streams)

\* C10, its last part: a zip with no entry ending in ".msi" fails.
C10_NoMsiFails ==
    NormalizedZip => \E i \in 1..Len(file.entries) : file.entries[i].name[3] = ".msi"

\* the table resolver went through
Resolved == pc \in {"version", "extract"}

\* C7: the resolver fails the install when a file row's component has no
\* Component row or a directory id has no Directory row: where it went
\* through, every file row is in the FileMap.
C7_NoRowLeftOut ==
    Resolved => \A f \in DOMAIN msi.db.File : f \in DOMAIN file_map

\* C7, end to end: no install succeeds on a database with a file row whose
\* component has no row.
C7_OrphanFailsInstall ==
    (pc = "idle" /\ outcome \in {"installed", "updated"} /\ server.payload.kind = "msi")
        => \A f \in DOMAIN server.payload.db.File :
               server.payload.db.File[f].comp \in DOMAIN server.payload.db.Component

\* C7, the directory half: where the resolver went through, the directory of
\* every joined row and each of its ancestors has a Directory row.
RECURSIVE HasRowsUp(_, _, _)
HasRowsUp(dirs, d, n) ==
    /\ d \in DOMAIN dirs
    /\ (dirs[d].parent # NULL /\ n > 0) => HasRowsUp(dirs, dirs[d].parent, n - 1)

C7_DirectoryRowsExist ==
    Resolved =>
        \A f \in DOMAIN file_map :
            HasRowsUp(msi.db.Directory, msi.db.Component[msi.db.File[f].comp],
                      Cardinality(DirIds))

\* the long name as the claims word it: the part of raw after its last '|',
\* all of raw when it has none
LongNameOf(raw) ==
    CHOOSE r \in {SubSeq(raw, k, Len(raw)) : k \in 1..(Len(raw) + 1)} :
        /\ \A i \in 1..Len(r) : r[i] # "|"
        /\ Len(r) = Len(raw) \/ raw[Len(raw) - Len(r)] = "|"

RECURSIVE AncestorAt(_, _, _)
\* the k-th ancestor of directory d (d itself for k = 0), NULL past the root
AncestorAt(dirs, d, k) ==
    IF k = 0 THEN d
    ELSE IF d \notin DOMAIN dirs THEN NULL
    ELSE IF dirs[d].parent = NULL THEN NULL
    ELSE AncestorAt(dirs, dirs[d].parent, k - 1)

IsRoot(dirs, d) == d \in DOMAIN dirs /\ dirs[d].parent = NULL

\* how many parent links lead from d to the parentless root
DepthOf(dirs, d) ==
    CHOOSE n \in 0..Cardinality(DirIds) : IsRoot(dirs, AncestorAt(dirs, d, n))

\* C8: every FileMap path is the long names of the owning directory's
\* ancestors from just below the root down to the directory itself, then the
\* file's long name; the root adds no segment; two file rows of one
\* directory get the same directory part.
C8_PathIsAncestorNames ==
    Resolved =>
        \A f \in DOMAIN file_map :
            LET dirs == msi.db.Directory
                d == msi.db.Component[msi.db.File[f].comp]
                n == DepthOf(dirs, d)
                path == file_map[f]
            IN  /\ Len(path) = n + 1
                /\ \A i \in 1..n :
                     path[i] = LongNameOf(dirs[AncestorAt(dirs, d, n - i)].name)
                /\ path[n + 1] = LongNameOf(msi.db.File[f].name)
                /\ \A g \in DOMAIN file_map :
                     msi.db.Component[msi.db.File[g].comp] = d =>
                         SubSeq(file_map[g], 1, n) = SubSeq(path, 1, n)

\* root <- A <- B with names that carry a short part, and a file in B
C8_Witness ==
    /\ Resolved
    /\ \E f \in DOMAIN file_map :
         LET dirs == msi.db.Directory
             d == msi.db.Component[msi.db.File[f].comp]
         IN  /\ Len(file_map[f]) = 3
             /\ \E i \in 1..Len(dirs[d].name) : dirs[d].name[i] = "|"
             /\ \E i \in 1..Len(msi.db.File[f].name) : msi.db.File[f].name[i] = "|"
             /\ Len(Split(dirs[dirs[d].parent].name)) = 3

\* C9: each turn of the extraction loop at a cabinet entry looks the entry up
\* (the log gains that entry's event), and an entry without a FileMap entry
\* ends the install in an error with the root as it was, wherever the file
\* would have gone; a turn at a stream that is no cabinet only moves on to
\* the next stream, the root and all that was written untouched.
C9_LookupOrAbort ==
    [][ (pc = "extract" /\ stream_i <= Len(msi.streams)) =>
          LET b == msi.streams[stream_i].bytes IN
          IF b.kind # "cab"
          THEN /\ pc' = "extract"
               /\ stream_i' = stream_i + 1
               /\ root' = root
               /\ log' = log
               /\ outcome' = outcome
          ELSE entry_i <= Len(b.entries) =>
               LET f == b.entries[entry_i] IN
               /\ Len(log') = Len(log) + 1
               /\ log'[Len(log')].file = f
               /\ f \notin DOMAIN file_map =>
                    /\ pc' = "idle"
                    /\ outcome' = "error"
                    /\ log'[Len(log')].ev = "lookup_failed"
                    /\ root' = root ]_vars

\* an install that skipped a stream that is no cabinet, wrote a file and then
\* met an entry without a FileMap entry
C9_Witness ==
    /\ pc = "idle"
    /\ outcome = "error"
    /\ HasEvent(log, "lookup_failed")
    /\ HasEvent(log, "write")
    /\ server.payload.kind = "msi"
    /\ Len(server.payload.db.streams) > 0
    /\ server.payload.db.streams[1].bytes.kind = "raw"

RECURSIVE LoopsFrom(_, _, _)
LoopsFrom(d, t, seen) ==
    IF d \in seen THEN TRUE
    ELSE IF d \notin DOMAIN t THEN FALSE
    ELSE IF t[d].parent = NULL THEN FALSE
    ELSE LoopsFrom(t[d].parent, t, seen \cup {d})

\* C13: directory resolution terminates on every finite Directory table: an
\* install whose download has a file in a directory whose parent links loop
\* ends with an error, never by running out of stack.
C13_CycleStopsWithError ==
    /\ outcome # "crashed"
    /\ (/\ pc = "version"
        /\ file.kind = "msi") =>
            \A f \in DOMAIN file_map :
                ~LoopsFrom(file.db.Component[file.db.File[f].comp],
                           file.db.Directory, {})

\* C14: in the download loop the callback is called once per chunk read, and
\* the downloaded value of each call is the number of bytes received so far:
\* it never exceeds the announced total, never decreases from one call to
\* the next, and is the total once the whole body has been received.
C14_DownloadedIsCumulative ==
    (pc = "chunks" /\ calls # << >>) =>
        /\ Last(calls).downloaded = position
        /\ \A i \in 1..Len(calls) : calls[i].downloaded <= calls[i].total
        /\ \A i, j \in 1..Len(calls) :
              i < j => calls[i].downloaded <= calls[j].downloaded
        /\ position = content_length => Last(calls).downloaded = content_length

====
